---- MODULE Spec2Model ----
(***************************************************************************)
(* Model of the VDP speech-emotion API: the /api/analyze-text handler and  *)
(* its keyword analysis (api/analyze-text.js), the word-database emotion   *)
(* engine (api/emotion-engine.js), the token authentication middleware     *)
(* (api/auth-middleware.js) and the handlers that use it.                  *)
(*                                                                         *)
(* Strings are sequences of one-character strings.  JavaScript numbers are *)
(* exact rationals [n, d] in lowest terms; d = 0 stands for the non-finite *)
(* results of a division by zero (0/0 is NaN).  IEEE rounding is not       *)
(* modelled: it is many orders of magnitude below every tolerance and gap  *)
(* that the properties below speak about.                                  *)
(***************************************************************************)
EXTENDS Integers, Sequences, FiniteSets, TLC

VARIABLES req, res, engine, wordCache, deepseekApiKey, env, authorizedTokens, rateLimits, now,
          passed, callCounts, tmpFiles, pythonRuns, analyzer, backend

vars ==
  <<req, res, engine, wordCache, deepseekApiKey, env, authorizedTokens, rateLimits, now, passed,
    callCounts, tmpFiles, pythonRuns, analyzer, backend>>

-----------------------------------------------------------------------------
(* JavaScript numbers as rationals                                         *)

Abs(x) == IF x < 0 THEN -x ELSE x

Sign(x) == IF x < 0 THEN -1 ELSE IF x > 0 THEN 1 ELSE 0

RECURSIVE GCD(_, _)
GCD(a, b) == IF b = 0 THEN a ELSE GCD(b, a % b)

\* n / d as JavaScript computes it: a finite quotient, or NaN (0/0) or
\* +-Infinity (x/0), both represented with d = 0
R(n, d) ==
  IF d = 0 THEN [n |-> Sign(n), d |-> 0]
  ELSE LET g == GCD(Abs(n), Abs(d))
           s == IF d < 0 THEN -1 ELSE 1
       IN  [n |-> (s * n) \div g, d |-> (s * d) \div g]

NaN == [n |-> 0, d |-> 0]

IsFinite(x) == x.d # 0

IsNaN(x) == x.d = 0 /\ x.n = 0

RatAdd(x, y) ==
  IF IsFinite(x) /\ IsFinite(y)
  THEN LET g == GCD(x.d, y.d)
       IN  R(x.n * (y.d \div g) + y.n * (x.d \div g), (x.d \div g) * y.d)
  ELSE IF IsNaN(x) \/ IsNaN(y) THEN NaN
  ELSE IF IsFinite(x) THEN y
  ELSE IF IsFinite(y) \/ x.n = y.n THEN x ELSE NaN

RatMul(x, y) ==
  IF IsFinite(x) /\ IsFinite(y)
  THEN LET g == GCD(Abs(x.n), y.d)
           h == GCD(Abs(y.n), x.d)
       IN  R((x.n \div g) * (y.n \div h), (x.d \div h) * (y.d \div g))
  ELSE IF IsNaN(x) \/ IsNaN(y) \/ x.n = 0 \/ y.n = 0 THEN NaN
  ELSE [n |-> Sign(x.n) * Sign(y.n), d |-> 0]

\* x / y: a zero divisor gives NaN or an infinity, never an exception
RatDiv(x, y) ==
  IF IsFinite(x) /\ IsFinite(y)
  THEN IF y.n = 0 THEN [n |-> Sign(x.n), d |-> 0]
       ELSE LET g == GCD(Abs(x.n), Abs(y.n))
                h == GCD(x.d, y.d)
            IN  R((x.n \div g) * (y.d \div h), (x.d \div h) * (y.n \div g))
  ELSE IF IsFinite(x) /\ ~IsNaN(y) THEN R(0, 1)
  ELSE IF IsFinite(y) /\ ~IsNaN(x) THEN x
  ELSE NaN

\* x < y; every comparison with NaN is false
RatLt(x, y) ==
  IF IsFinite(x) /\ IsFinite(y)
  THEN LET g == GCD(x.d, y.d)
       IN  x.n * (y.d \div g) < y.n * (x.d \div g)
  ELSE IF IsNaN(x) \/ IsNaN(y) THEN FALSE
  ELSE IF IsFinite(x) THEN y.n > 0
  ELSE IF IsFinite(y) THEN x.n < 0
  ELSE x.n < y.n

RatGt(x, y) == RatLt(y, x)

RatLe(x, y) == RatLt(x, y) \/ (~IsNaN(x) /\ x = y)

\* Math.min(x, y)
RatMin(x, y) ==
  IF IsNaN(x) \/ IsNaN(y) THEN NaN ELSE IF RatLt(y, x) THEN y ELSE x

Zero == R(0, 1)

One == R(1, 1)

\* the number is falsy in a JavaScript condition (x || dflt)
FalsyNum(x) == IsNaN(x) \/ (IsFinite(x) /\ x.n = 0)

RECURSIVE RatSumSeq(_)
RatSumSeq(s) == IF s = <<>> THEN Zero ELSE RatAdd(RatSumSeq(SubSeq(s, 1, Len(s) - 1)), s[Len(s)])

-----------------------------------------------------------------------------
(* Strings                                                                 *)

Whitespace == {" ", "\t", "\n"}

IsWs(c) == c \in Whitespace

UpperToLower == [A |-> "a", M |-> "m", S |-> "s"]

\* String.prototype.toLowerCase, one character
LowerChar(c) == IF c \in DOMAIN UpperToLower THEN UpperToLower[c] ELSE c

toLowerCase(t) == SubSeq([i \in 1..Len(t) |-> LowerChar(t[i])], 1, Len(t))

Letters ==
  {"a","b","c","d","e","f","g","h","i","j","k","l","m","n","o","p","q","r","s","t","u","v",
   "w","x","y","z","A","M","S"}

Digits == {"0","1","2","3","4","5","6","7","8","9"}

\* a character the cleaning regexp /[^a-zA-Z0-9]/g keeps
IsAlnum(c) == c \in Letters \cup Digits

\* String.prototype.trim
trim(t) ==
  LET n == Len(t)
  IN  IF \A i \in 1..n : IsWs(t[i]) THEN <<>>
      ELSE LET first == CHOOSE i \in 1..n : ~IsWs(t[i]) /\ \A j \in 1..(i - 1) : IsWs(t[j])
               last  == CHOOSE i \in 1..n : ~IsWs(t[i]) /\ \A j \in (i + 1)..n : IsWs(t[j])
           IN  SubSeq(t, first, last)

\* the k-th smallest element of a set of integers
Nth(S, k) == CHOOSE x \in S : Cardinality({y \in S : y < x}) = k - 1

\* String.prototype.split(/\s+/): the maximal runs of non-whitespace, with an
\* empty string in front of leading whitespace and after trailing whitespace
splitWs(t) ==
  IF t = <<>> THEN << <<>> >>
  ELSE LET n == Len(t)
           st == {i \in 1..n : ~IsWs(t[i]) /\ (i = 1 \/ IsWs(t[i - 1]))}
           en == {i \in 1..n : ~IsWs(t[i]) /\ (i = n \/ IsWs(t[i + 1]))}
           core == [k \in 1..Cardinality(st) |-> SubSeq(t, Nth(st, k), Nth(en, k))]
           lead == IF IsWs(t[1]) THEN << <<>> >> ELSE <<>>
           trail == IF IsWs(t[n]) THEN << <<>> >> ELSE <<>>
       IN  lead \o core \o trail

\* String.prototype.includes
includes(t, pat) ==
  \E i \in 1..(Len(t) - Len(pat) + 1) : SubSeq(t, i, i + Len(pat) - 1) = pat

\* word.replace(/[^a-zA-Z0-9]/g, '')
cleanWord(w) == SelectSeq(w, IsAlnum)

-----------------------------------------------------------------------------
(* api/analyze-text.js: the keyword analysis                               *)

\* key order of emotionScores / emotions in analyzeTextBasic
BasicOrder ==
  <<"joy", "sadness", "anger", "fear", "surprise", "disgust", "trust", "anticipation">>

\* key order of emotionWeights in calculateOverallEmotion
EngineOrder ==
  <<"joy", "trust", "anticipation", "surprise", "anger", "fear", "sadness", "disgust">>

Emotions == {BasicOrder[i] : i \in 1..Len(BasicOrder)}

emotionKeywords ==
  [ joy |->
      {<<"h","a","p","p","y">>, <<"e","x","c","i","t","e","d">>,
       <<"t","h","r","i","l","l","e","d">>, <<"d","e","l","i","g","h","t","e","d">>,
       <<"j","o","y","f","u","l">>, <<"c","h","e","e","r","f","u","l">>,
       <<"e","l","a","t","e","d">>, <<"g","l","a","d">>,
       <<"p","l","e","a","s","e","d">>, <<"a","m","a","z","i","n","g">>,
       <<"w","o","n","d","e","r","f","u","l">>,
       <<"f","a","n","t","a","s","t","i","c">>, <<"g","r","e","a","t">>,
       <<"a","w","e","s","o","m","e">>, <<"l","o","v","e">>, <<"a","d","o","r","e">>},
    sadness |->
      {<<"s","a","d">>, <<"d","e","p","r","e","s","s","e","d">>,
       <<"m","i","s","e","r","a","b","l","e">>, <<"u","n","h","a","p","p","y">>,
       <<"c","r","y","i","n","g">>, <<"t","e","a","r","s">>, <<"a","w","f","u","l">>,
       <<"t","e","r","r","i","b","l","e">>, <<"h","o","r","r","i","b","l","e">>,
       <<"d","e","v","a","s","t","a","t","i","n","g">>,
       <<"h","e","a","r","t","b","r","o","k","e","n">>,
       <<"d","i","s","a","p","p","o","i","n","t","e","d">>},
    anger |->
      {<<"a","n","g","r","y">>, <<"f","u","r","i","o","u","s">>, <<"m","a","d">>,
       <<"r","a","g","e">>, <<"h","a","t","e">>,
       <<"d","i","s","g","u","s","t","e","d">>, <<"a","n","n","o","y","e","d">>,
       <<"i","r","r","i","t","a","t","e","d">>,
       <<"f","r","u","s","t","r","a","t","e","d">>, <<"p","i","s","s","e","d">>,
       <<"o","u","t","r","a","g","e","d">>},
    fear |->
      {<<"s","c","a","r","e","d">>, <<"a","f","r","a","i","d">>,
       <<"t","e","r","r","i","f","i","e","d">>, <<"w","o","r","r","i","e","d">>,
       <<"a","n","x","i","o","u","s">>, <<"n","e","r","v","o","u","s">>,
       <<"p","a","n","i","c">>, <<"f","r","i","g","h","t","e","n","e","d">>,
       <<"a","l","a","r","m","e","d">>},
    surprise |->
      {<<"s","u","r","p","r","i","s","e","d">>, <<"s","h","o","c","k","e","d">>,
       <<"a","m","a","z","e","d">>, <<"a","s","t","o","n","i","s","h","e","d">>,
       <<"w","o","w">>, <<"i","n","c","r","e","d","i","b","l","e">>,
       <<"u","n","b","e","l","i","e","v","a","b","l","e">>,
       <<"u","n","e","x","p","e","c","t","e","d">>},
    disgust |->
      {<<"d","i","s","g","u","s","t","i","n","g">>, <<"g","r","o","s","s">>,
       <<"n","a","s","t","y">>, <<"r","e","v","o","l","t","i","n","g">>,
       <<"s","i","c","k">>, <<"y","u","c","k">>, <<"a","w","f","u","l">>,
       <<"r","e","p","u","l","s","i","v","e">>},
    trust |->
      {<<"t","r","u","s","t">>, <<"c","o","n","f","i","d","e","n","t">>,
       <<"r","e","l","i","a","b","l","e">>, <<"f","a","i","t","h","f","u","l">>,
       <<"l","o","y","a","l">>, <<"h","o","n","e","s","t">>,
       <<"d","e","p","e","n","d","a","b","l","e">>, <<"s","u","r","e">>},
    anticipation |->
      {<<"e","x","c","i","t","e","d">>, <<"e","a","g","e","r">>,
       <<"h","o","p","e","f","u","l">>, <<"e","x","p","e","c","t","i","n","g">>,
       <<"l","o","o","k","i","n","g"," ","f","o","r","w","a","r","d">>,
       <<"a","n","t","i","c","i","p","a","t","i","n","g">>, <<"r","e","a","d","y">>} ]

\* keys.reduce((a, b) => m[a] > m[b] ? a : b)
\* a reduction that keeps the earlier key when two values are equal
ReduceFirst(keys, m) ==
  keys[CHOOSE i \in 1..Len(keys) :
         /\ \A j \in 1..Len(keys) : RatLe(m[keys[j]], m[keys[i]])
         /\ \A j \in 1..(i - 1) : RatLt(m[keys[j]], m[keys[i]])]

RECURSIVE ReduceDominant(_, _)
ReduceDominant(keys, m) ==
  IF Len(keys) = 1 THEN keys[1]
  ELSE LET a == ReduceDominant(SubSeq(keys, 1, Len(keys) - 1), m)
           b == keys[Len(keys)]
       IN  IF RatGt(m[a], m[b]) THEN a ELSE b

\* Object.values(m).reduce((a, b) => a + b, 0)
SumValues(keys, m) == RatSumSeq([i \in 1..Len(keys) |-> m[keys[i]]])

\* Math.max(...Object.values(m))
MaxValue(keys, m) ==
  LET vals == {m[keys[i]] : i \in 1..Len(keys)}
  IN  CHOOSE v \in vals : \A w \in vals : RatLe(w, v)

\* the last emotion, in key order, whose keyword list includes the word
LastKeywordEmotion(word) ==
  LET hits == {i \in 1..Len(BasicOrder) : word \in emotionKeywords[BasicOrder[i]]}
  IN  IF hits = {} THEN "neutral"
      ELSE BasicOrder[CHOOSE i \in hits : \A j \in hits : j <= i]

BasicWordEntry(word) ==
  LET wordEmotion == LastKeywordEmotion(word)
  IN  [ word |-> word,
        clean_word |-> word,
        emotion |-> wordEmotion,
        confidence |-> IF wordEmotion = "neutral" THEN R(1, 8) ELSE R(4, 5),
        valence |-> IF wordEmotion = "joy" THEN R(4, 5)
                    ELSE IF wordEmotion = "sadness" THEN R(1, 5) ELSE R(1, 2),
        arousal |-> IF wordEmotion \in {"anger", "fear", "surprise"} THEN R(4, 5) ELSE R(1, 2),
        sentiment |-> IF wordEmotion \in {"joy", "trust", "anticipation"} THEN "positive"
                      ELSE IF wordEmotion \in {"sadness", "anger", "fear", "disgust"}
                           THEN "negative" ELSE "neutral",
        found |-> wordEmotion # "neutral",
        source |-> "keywords" ]

\* the emotions map of analyzeTextBasic: keyword counts over their total,
\* renormalised, or 0.125 each when no keyword was counted
BasicEmotions(words) ==
  LET emotionScores == [e \in Emotions |->
                          Cardinality({i \in 1..Len(words) : words[i] \in emotionKeywords[e]})]
      totalEmotionWords == SumValues(BasicOrder, [e \in Emotions |-> R(emotionScores[e], 1)])
      shares == [e \in Emotions |-> RatDiv(R(emotionScores[e], 1), totalEmotionWords)]
      total == SumValues(BasicOrder, shares)
  IN  IF RatGt(totalEmotionWords, Zero)
      THEN IF RatGt(total, Zero) THEN [e \in Emotions |-> RatDiv(shares[e], total)] ELSE shares
      ELSE [e \in Emotions |-> R(1, 8)]

analyzeTextBasic(text) ==
  LET words == splitWs(toLowerCase(text))
      emotions == BasicEmotions(words)
      dominantEmotion == ReduceDominant(BasicOrder, emotions)
      wordAnalysis == [i \in 1..Len(words) |-> BasicWordEntry(words[i])]
      foundCount == Cardinality({i \in 1..Len(words) : wordAnalysis[i].found})
  IN  [ overall_emotion |-> dominantEmotion,
        confidence |-> MaxValue(BasicOrder, emotions),
        emotions |-> emotions,
        word_analysis |-> wordAnalysis,
        word_count |-> Len(words),
        analyzed_words |-> foundCount,
        coverage |-> R(foundCount, Len(words)),
        vad |-> [ valence |-> IF dominantEmotion = "joy" THEN R(4, 5)
                              ELSE IF dominantEmotion = "sadness" THEN R(1, 5) ELSE R(1, 2),
                  arousal |-> IF dominantEmotion \in {"anger", "fear", "surprise"}
                              THEN R(4, 5) ELSE R(1, 2),
                  dominance |-> IF dominantEmotion \in {"anger", "trust"}
                                THEN R(4, 5) ELSE R(1, 2) ],
        sentiment |-> [ polarity |-> IF dominantEmotion \in {"joy", "trust", "anticipation"}
                                     THEN "positive"
                                     ELSE IF dominantEmotion \in {"sadness", "anger", "fear", "disgust"}
                                          THEN "negative" ELSE "neutral",
                        strength |-> MaxValue(BasicOrder, emotions) ],
        processing_method |-> "basic_keywords" ]

-----------------------------------------------------------------------------
(* api/emotion-engine.js                                                   *)

contextPatterns ==
  [ anger |->
      << {<<"h","a","t","e">>, <<"a","n","g","r","y">>, <<"m","a","d">>,
          <<"f","u","r","i","o","u","s">>},
         {<<"d","a","m","n">>, <<"s","h","i","t">>, <<"s","t","u","p","i","d">>} >>,
    joy |->
      << {<<"l","o","v","e">>, <<"h","a","p","p","y">>,
          <<"e","x","c","i","t","e","d">>, <<"a","m","a","z","i","n","g">>},
         {<<"y","e","s">>, <<"a","w","e","s","o","m","e">>,
          <<"f","a","n","t","a","s","t","i","c">>} >>,
    sadness |->
      << {<<"s","a","d">>, <<"c","r","y">>, <<"t","e","a","r","s">>,
          <<"d","e","p","r","e","s","s","e","d">>},
         {<<"s","o","r","r","y">>,
          <<"d","i","s","a","p","p","o","i","n","t","e","d">>} >>,
    fear |->
      << {<<"s","c","a","r","e","d">>, <<"a","f","r","a","i","d">>,
          <<"w","o","r","r","i","e","d">>, <<"a","n","x","i","o","u","s">>},
         {<<"d","a","n","g","e","r">>, <<"t","h","r","e","a","t">>} >>,
    surprise |->
      << {<<"w","o","w">>, <<"o","m","g">>,
          <<"i","n","c","r","e","d","i","b","l","e">>,
          <<"s","h","o","c","k","i","n","g">>},
         {<<"s","u","d","d","e","n">>, <<"u","n","e","x","p","e","c","t","e","d">>} >>,
    disgust |->
      << {<<"g","r","o","s","s">>, <<"d","i","s","g","u","s","t","i","n","g">>,
          <<"n","a","s","t","y">>, <<"a","w","f","u","l">>},
         {<<"s","i","c","k">>, <<"y","u","c","k">>} >>,
    trust |->
      << {<<"t","r","u","s","t">>, <<"r","e","l","i","a","b","l","e">>,
          <<"h","o","n","e","s","t">>, <<"f","a","i","t","h","f","u","l">>},
         {<<"s","u","r","e">>, <<"c","e","r","t","a","i","n">>} >>,
    anticipation |->
      << {<<"e","x","c","i","t","e","d">>,
          <<"c","a","n","'","t"," ","w","a","i","t">>,
          <<"l","o","o","k","i","n","g"," ","f","o","r","w","a","r","d">>},
         {<<"h","o","p","e">>, <<"e","x","p","e","c","t">>} >> ]

\* emotion_probs with the eight keys in the engine's order
Probs(joy, trust, anticipation, surprise, anger, fear, sadness, disgust) ==
  [ joy |-> joy, trust |-> trust, anticipation |-> anticipation, surprise |-> surprise,
    anger |-> anger, fear |-> fear, sadness |-> sadness, disgust |-> disgust ]

Stats(probs, valence, arousal, dominance, polarity, strength) ==
  [ emotion_probs |-> [type |-> "object", map |-> probs],
    vad |-> [type |-> "object", valence |-> valence, arousal |-> arousal, dominance |-> dominance],
    sentiment |-> [type |-> "object", polarity |-> polarity, strength |-> strength] ]

\* the word database as loadWordDatabase leaves it in wordCache: lowercase
\* word -> stats.  The data files are not part of the sources; these entries
\* cover a strong, a medium and a weak emotional word, a neutral one, two
\* positive words whose first two emotions lie close together and a word
\* with a confident emotion and neutral sentiment.
WordDatabase ==
  ( <<"o","d","d">> :>
      Stats(Probs(R(1,10), R(1,10), R(1,10), R(2,5), R(1,10), R(1,10), R(1,20), R(1,20)),
            R(1,2), R(7,10), R(1,2), "neutral", R(3,10)) ) @@
  ( <<"f","u","n">> :>
      Stats(Probs(R(13,50), R(6,25), R(1,12), R(1,12), R(1,12), R(1,12), R(1,12), R(1,12)),
            R(4,5), R(3,5), R(3,5), "positive", R(3,5)) ) @@
  ( <<"k","i","n">> :>
      Stats(Probs(R(1,10), R(17,50), R(7,75), R(7,75), R(7,75), R(7,75), R(7,75), R(7,75)),
            R(7,10), R(3,10), R(1,2), "positive", R(1,2)) ) @@
  ( <<"s","a","d">> :>
      Stats(Probs(R(1,40), R(1,40), R(1,40), R(1,40), R(1,10), R(1,10), R(3,5), R(1,10)),
            R(1,5), R(2,5), R(3,10), "negative", R(7,10)) ) @@
  ( <<"m","a","d">> :>
      Stats(Probs(Zero, Zero, Zero, Zero, R(9,20), R(1,10), R(1,5), R(1,4)),
            Zero, R(4,5), R(7,10), "negative", R(3,5)) ) @@
  ( <<"a","w","f","u","l">> :>
      Stats(Probs(R(7,80), R(7,80), R(7,80), R(7,80), R(7,80), R(7,80), R(1,5), R(11,40)),
            R(3,10), R(1,2), R(2,5), "negative", R(2,5)) ) @@
  ( <<"a">> :>
      Stats(Probs(R(1,8), R(1,8), R(1,8), R(1,8), R(1,8), R(1,8), R(1,8), R(1,8)),
            R(1,2), R(1,2), R(1,2), "neutral", R(1,2)) )

\* Object.entries order of an emotion_probs object
ProbKeys(probs) == SelectSeq(EngineOrder, LAMBDA e : e \in DOMAIN probs)

\* getDominantEmotion: the first key with the strictly largest probability
RECURSIVE DominantFrom(_, _, _)
DominantFrom(keys, probs, acc) ==
  IF keys = <<>> THEN acc
  ELSE DominantFrom(Tail(keys), probs,
         IF RatGt(probs[Head(keys)], acc.confidence)
         THEN [emotion |-> Head(keys), confidence |-> probs[Head(keys)]]
         ELSE acc)

getDominantEmotion(emotionProbs) ==
  DominantFrom(ProbKeys(emotionProbs), emotionProbs, [emotion |-> "neutral", confidence |-> Zero])

getDefaultEmotionProbs(emotion) ==
  IF emotion # "neutral"
  THEN [e \in Emotions |-> IF e = emotion THEN R(4, 5) ELSE R(1, 35)]
  ELSE [e \in Emotions |-> R(1, 8)]

NoProbs == [type |-> "undefined"]

\* the entry analyzeText pushes for a word found in the database
DatabaseEntry(originalWord, clean, emotionData) ==
  LET dominantEmotion == getDominantEmotion(emotionData.emotion_probs.map)
  IN  [ word |-> originalWord, clean_word |-> clean,
        emotion |-> dominantEmotion.emotion, confidence |-> dominantEmotion.confidence,
        valence |-> emotionData.vad.valence, arousal |-> emotionData.vad.arousal,
        sentiment |-> emotionData.sentiment.polarity,
        found |-> TRUE, source |-> "database", emotion_probs |-> emotionData.emotion_probs ]

\* the placeholder analyzeText pushes for a word that is not in the database
PlaceholderEntry(originalWord, clean) ==
  [ word |-> originalWord, clean_word |-> clean,
    emotion |-> "neutral", confidence |-> R(1, 8),
    valence |-> R(1, 2), arousal |-> R(1, 2), sentiment |-> "neutral",
    found |-> FALSE, source |-> "unknown", emotion_probs |-> NoProbs ]

\* the first loop of analyzeText: one entry per token whose cleaned form is
\* not empty
WordEntries(cache, text) ==
  LET words == splitWs(toLowerCase(text))
      all == [i \in 1..Len(words) |->
                LET clean == cleanWord(words[i])
                IN  IF clean \in DOMAIN cache
                    THEN DatabaseEntry(words[i], clean, cache[clean])
                    ELSE PlaceholderEntry(words[i], clean)]
  IN  SelectSeq(all, LAMBDA w : w.clean_word # <<>>)

UnknownWords(entries) == SelectSeq(entries, LAMBDA w : ~w.found)

\* the amplification of a confident word's own emotion
Amplification(confidence) ==
  IF RatGt(confidence, R(1, 2)) THEN R(3, 1)
  ELSE IF RatGt(confidence, R(3, 10)) THEN R(5, 2)
  ELSE R(2, 1)

\* what one confident word adds to emotionWeights[emotion]
WeightedScore(wordData, emotion) ==
  LET emotionProbs == IF wordData.emotion_probs.type = "object"
                      THEN wordData.emotion_probs.map
                      ELSE getDefaultEmotionProbs(wordData.emotion)
      baseScore == IF emotion \in DOMAIN emotionProbs /\ ~FalsyNum(emotionProbs[emotion])
                   THEN emotionProbs[emotion] ELSE R(1, 8)
  IN  IF emotion = wordData.emotion
      THEN RatMul(baseScore, Amplification(wordData.confidence))
      ELSE baseScore

EmotionWeights(confidentWords) ==
  [e \in Emotions |->
     RatSumSeq([i \in 1..Len(confidentWords) |-> WeightedScore(confidentWords[i], e)])]

\* the normalisation of the weighted scores
NormalizeWeights(emotionWeights) ==
  LET totalWeight == SumValues(EngineOrder, emotionWeights)
  IN  IF RatGt(totalWeight, Zero)
      THEN [e \in Emotions |-> RatDiv(emotionWeights[e], totalWeight)]
      ELSE [e \in Emotions |-> R(1, 8)]

\* a boost of 0.15 for every group with a pattern that the text includes
BoostPerGroup(emotion, textLower) ==
  LET matched(g) == IF \E p \in contextPatterns[emotion][g] : includes(textLower, p)
                    THEN 1 ELSE 0
  IN  RatMul(R(3, 20), R(matched(1) + matched(2), 1))

\* the boost of one emotion: 0.15 for every pattern of every group that the
\* lowercased text includes
BoostFactor(emotion, textLower) ==
  LET matches(g) == Cardinality({p \in contextPatterns[emotion][g] : includes(textLower, p)})
  IN  RatMul(R(3, 20), R(matches(1) + matches(2), 1))

\* the emotions after the pattern boosts, before the renormalisation
BoostedEmotions(emotions, text) ==
  LET textLower == toLowerCase(text)
  IN  [e \in Emotions |->
         LET boostFactor == BoostFactor(e, textLower)
         IN  IF RatGt(boostFactor, Zero)
             THEN RatMin(RatAdd(emotions[e], boostFactor), R(4, 5))
             ELSE emotions[e]]

\* the adjusted values returned as they are
RenormalizeSkipped(adjustedEmotions) == adjustedEmotions

Renormalize(adjustedEmotions) ==
  LET total == SumValues(EngineOrder, adjustedEmotions)
  IN  IF RatGt(total, Zero)
      THEN [e \in Emotions |-> RatDiv(adjustedEmotions[e], total)]
      ELSE adjustedEmotions

applyContextAdjustments(emotions, confidentWords, text) ==
  Renormalize(BoostedEmotions(emotions, text))

OrDefault(x, dflt) == IF FalsyNum(x) THEN dflt ELSE x

\* the entries of word_analysis carry no dominance, so word.dominance is
\* undefined and every word counts 0.5
calculateAggregateVAD(confidentWords) ==
  LET n == Len(confidentWords)
  IN  IF n = 0 THEN [valence |-> R(1, 2), arousal |-> R(1, 2), dominance |-> R(1, 2)]
      ELSE [ valence |-> RatDiv(RatSumSeq([i \in 1..n |->
                            OrDefault(confidentWords[i].valence, R(1, 2))]), R(n, 1)),
             arousal |-> RatDiv(RatSumSeq([i \in 1..n |->
                            OrDefault(confidentWords[i].arousal, R(1, 2))]), R(n, 1)),
             dominance |-> RatDiv(RatSumSeq([i \in 1..n |-> R(1, 2)]), R(n, 1)) ]

\* a vote in which equal counts of positive and negative words give positive
calculateSentimentOptimistic(confidentWords) ==
  LET n == Len(confidentWords)
      positiveCount == Cardinality({i \in 1..n : confidentWords[i].sentiment = "positive"})
      negativeCount == Cardinality({i \in 1..n : confidentWords[i].sentiment = "negative"})
      strengthSum == RatSumSeq([i \in 1..n |-> OrDefault(confidentWords[i].confidence, R(1, 2))])
  IN  IF n = 0 THEN [polarity |-> "neutral", strength |-> R(1, 2)]
      ELSE [ polarity |-> IF positiveCount >= negativeCount THEN "positive" ELSE "negative",
             strength |-> RatDiv(strengthSum, R(n, 1)) ]

calculateSentiment(confidentWords) ==
  LET n == Len(confidentWords)
      positiveCount == Cardinality({i \in 1..n : confidentWords[i].sentiment = "positive"})
      negativeCount == Cardinality({i \in 1..n : confidentWords[i].sentiment = "negative"})
      strengthSum == RatSumSeq([i \in 1..n |-> OrDefault(confidentWords[i].confidence, R(1, 2))])
  IN  IF n = 0 THEN [polarity |-> "neutral", strength |-> R(1, 2)]
      ELSE [ polarity |-> IF positiveCount > negativeCount THEN "positive"
                          ELSE IF negativeCount > positiveCount THEN "negative"
                          ELSE "neutral",
             strength |-> RatDiv(strengthSum, R(n, 1)) ]

\* the neutral result with coverage computed as the quotient
getNeutralQuotient(wordAnalyses, text) ==
  [ overall_emotion |-> "neutral",
    confidence |-> R(1, 8),
    emotions |-> [e \in Emotions |-> R(1, 8)],
    word_analysis |-> wordAnalyses,
    word_count |-> Len(wordAnalyses),
    analyzed_words |-> 0,
    coverage |-> R(0, Len(wordAnalyses)),
    vad |-> [valence |-> R(1, 2), arousal |-> R(1, 2), dominance |-> R(1, 2)],
    sentiment |-> [polarity |-> "neutral", strength |-> R(1, 2)],
    processing_method |-> "neutral_fallback" ]

getNeutralResult(wordAnalyses, text) ==
  [ overall_emotion |-> "neutral",
    confidence |-> R(1, 8),
    emotions |-> [e \in Emotions |-> R(1, 8)],
    word_analysis |-> wordAnalyses,
    word_count |-> Len(wordAnalyses),
    analyzed_words |-> 0,
    coverage |-> Zero,
    vad |-> [valence |-> R(1, 2), arousal |-> R(1, 2), dominance |-> R(1, 2)],
    sentiment |-> [polarity |-> "neutral", strength |-> R(1, 2)],
    processing_method |-> "neutral_fallback" ]

ConfidentWords(wordAnalyses) ==
  SelectSeq(wordAnalyses, LAMBDA w : w.found /\ RatGt(w.confidence, R(1, 4)))

calculateOverallEmotion(wordAnalyses, text) ==
  LET confidentWords == ConfidentWords(wordAnalyses)
      emotions == NormalizeWeights(EmotionWeights(confidentWords))
      adjustedEmotions == applyContextAdjustments(emotions, confidentWords, text)
      dominantEmotion == ReduceDominant(EngineOrder, adjustedEmotions)
  IN  IF Len(confidentWords) = 0 THEN getNeutralResult(wordAnalyses, text)
      ELSE [ overall_emotion |-> dominantEmotion,
             confidence |-> adjustedEmotions[dominantEmotion],
             emotions |-> adjustedEmotions,
             word_analysis |-> wordAnalyses,
             word_count |-> Len(wordAnalyses),
             analyzed_words |-> Len(confidentWords),
             coverage |-> RatDiv(R(Len(confidentWords), 1), R(Len(wordAnalyses), 1)),
             vad |-> calculateAggregateVAD(confidentWords),
             sentiment |-> calculateSentiment(confidentWords),
             processing_method |-> "javascript_with_real_database" ]

\* the slice(0, 5) of the unknown words that analyzeText sends to DeepSeek
MaxDeepSeekWords == 5

Null == [type |-> "null"]

\* a call that answers every failure with the neutral default profile
analyzeWordWithDefault(outcome) ==
  IF outcome.kind = "json" THEN outcome.data
  ELSE [type |-> "object",
        emotion_probs |-> [type |-> "object", map |-> [e \in Emotions |-> R(1, 8)]],
        vad |-> [type |-> "object", valence |-> R(1, 2), arousal |-> R(1, 2),
                 dominance |-> R(1, 2)],
        sentiment |-> [type |-> "object", polarity |-> "neutral", strength |-> R(1, 2)]]

\* what analyzeWordWithDeepSeek returns for an outcome of the fetch: the
\* parsed wordData, or null after a non-OK status, a network error or
\* content that JSON.parse rejects
analyzeWordWithDeepSeek(outcome) ==
  IF outcome.kind = "json" THEN outcome.data ELSE Null

\* wordAnalyses.findIndex(w => w.clean_word === clean), 0 for -1
findIndex(wordAnalyses, clean) ==
  LET hits == {i \in 1..Len(wordAnalyses) : wordAnalyses[i].clean_word = clean}
  IN  IF hits = {} THEN 0 ELSE CHOOSE i \in hits : \A j \in hits : i <= j

\* the body of the try block for one unknown word: the entry found by
\* findIndex is replaced, unless the result is null or reading it throws
\* (emotion_probs, vad or sentiment missing), which the catch absorbs
ApplyDeepSeekResult(wordAnalyses, unknownWord, deepseekResult) ==
  LET wordIndex == findIndex(wordAnalyses, unknownWord.clean_word)
  IN  IF \/ deepseekResult.type # "object"
         \/ wordIndex = 0
         \/ deepseekResult.emotion_probs.type # "object"
         \/ deepseekResult.vad.type # "object"
         \/ deepseekResult.sentiment.type # "object"
      THEN wordAnalyses
      ELSE LET dominantEmotion == getDominantEmotion(deepseekResult.emotion_probs.map)
           IN  [wordAnalyses EXCEPT ![wordIndex] =
                  [ word |-> @.word, clean_word |-> @.clean_word,
                    emotion |-> dominantEmotion.emotion,
                    confidence |-> dominantEmotion.confidence,
                    valence |-> deepseekResult.vad.valence,
                    arousal |-> deepseekResult.vad.arousal,
                    sentiment |-> deepseekResult.sentiment.polarity,
                    found |-> TRUE, source |-> "deepseek",
                    emotion_probs |-> deepseekResult.emotion_probs ]]

-----------------------------------------------------------------------------
(* Requests and responses                                                  *)

Undefined == [type |-> "undefined"]

Num(k) == [type |-> "number", val |-> k]

Str(t) == [type |-> "string", val |-> t]

\* !v for the values a JSON body can carry in its text field
Falsy(v) ==
  \/ v.type = "undefined"
  \/ v.type = "number" /\ v.val = 0
  \/ v.type = "string" /\ v.val = <<>>

NoBody == [type |-> "undefined"]

Body(text) == [type |-> "object", text |-> text]

NoPayload == [kind |-> "none"]

NoResponse ==
  [status |-> 0, sent |-> 0, json |-> FALSE, success |-> FALSE, error |-> "", payload |-> NoPayload,
   returned |-> FALSE]

\* return res.status(code).end()
EndResponse(code) ==
  [status |-> code, sent |-> 1, json |-> FALSE, success |-> FALSE, error |-> "", payload |-> NoPayload,
   returned |-> TRUE]

\* return res.status(code).json({success, error, ...})
JsonResponse(code, success, error, payload) ==
  [status |-> code, sent |-> 1, json |-> TRUE, success |-> success, error |-> error,
   payload |-> payload, returned |-> TRUE]

MaxTextLength == 10000

\* the outcome of the validation in the analyze-text handler: "ok" or the
\* error the handler answers with
\* the validation without the test of the trimmed text for emptiness
ValidateUntrimmed(body) ==
  IF body.type = "undefined" THEN "TypeError"
  ELSE IF Falsy(body.text) \/ body.text.type # "string" THEN "Invalid input"
  ELSE IF Len(trim(body.text.val)) > MaxTextLength THEN "Text too long"
  ELSE "ok"

ValidateText(body) ==
  IF body.type = "undefined" THEN "TypeError"
  ELSE IF Falsy(body.text) \/ body.text.type # "string" THEN "Invalid input"
  ELSE IF trim(body.text.val) = <<>> THEN "Empty text"
  ELSE IF Len(trim(body.text.val)) > MaxTextLength THEN "Text too long"
  ELSE "ok"

\* a method test that lets every method through
AnyMethod(method) == TRUE

\* req.method !== 'POST' of the analyze-text handler, negated
IsPost(method) == method = "POST"

\* module.exports = async function handler(req, res) of api/analyze-text.js
AnalyzeTextResponse(r) ==
  IF r.method = "OPTIONS" THEN EndResponse(200)
  ELSE IF ~IsPost(r.method) THEN JsonResponse(405, FALSE, "Method not allowed", NoPayload)
  ELSE LET v == ValidateText(r.body)
       IN  IF v = "TypeError"
           THEN JsonResponse(500, FALSE, "Internal server error", NoPayload)
           ELSE IF v # "ok" THEN JsonResponse(400, FALSE, v, NoPayload)
           ELSE LET trimmedText == trim(r.body.text.val)
                IN  JsonResponse(200, TRUE, "",
                      [ kind |-> "analysis",
                        transcription |-> trimmedText,
                        confidence |-> One,
                        emotion_analysis |-> analyzeTextBasic(trimmedText),
                        character_count |-> Len(trimmedText),
                        word_count |-> Len(splitWs(trimmedText)) ])

-----------------------------------------------------------------------------
(* api/auth-middleware.js                                                  *)

DefaultToken == "dev-token-123"

\* the tokens of the model: two that can be configured, the development
\* default and one that is never configured
Tokens == {"tokA", "tokB", DefaultToken, "bad"}

\* SHA-256 as hex digits, split after the eighth: distinct tokens have
\* distinct digests, but two digests can agree on their first eight digits
Sha256 ==
  [t \in Tokens |->
     IF t = "tokA" THEN [prefix |-> "5f0c1a77", rest |-> "e3"]
     ELSE IF t = "tokB" THEN [prefix |-> "5f0c1a77", rest |-> "9b"]
     ELSE IF t = DefaultToken THEN [prefix |-> "c2d40e18", rest |-> "4a"]
     ELSE [prefix |-> "08aa31f6", rest |-> "d0"]]

hashToken(token) == Sha256[token]

\* the set of hashes loadAuthorizedTokens builds from API_TOKEN_1..50, with
\* the development default when none is set
loadAuthorizedTokens(environment) ==
  IF environment = {} THEN {hashToken(DefaultToken)}
  ELSE {hashToken(t) : t \in environment}

MinAudioSize == 50

MaxAudioSize == 52428800

windowMs == 60000

maxRequests == 100

\* the token of a request: the Bearer credentials, else the api_token query
\* parameter; "" when neither is given
ExtractToken(r) ==
  IF r.authorization.scheme = "Bearer" /\ r.authorization.credentials # ""
  THEN r.authorization.credentials
  ELSE r.api_token

\* requests.filter(time => now - time < windowMs)
RecentRequests(requests, t) == SelectSeq(requests, LAMBDA time : t - time < windowMs)

RequestsOf(limits, clientId) == IF clientId \in DOMAIN limits THEN limits[clientId] ELSE <<>>

\* Math.ceil(x / 1000) for an integer x
CeilSeconds(x) == IF x % 1000 = 0 THEN x \div 1000 ELSE x \div 1000 + 1

\* a rate-limit test that lets the request after the last allowed one through
LimitExceeded(recentRequests) == Len(recentRequests) > maxRequests

\* the rate-limit test of authenticate
LimitReached(recentRequests) == Len(recentRequests) >= maxRequests

\* a membership test that accepts every hash
AnyToken(authorized, hashedToken) == TRUE

\* the membership test of authenticate
IsAuthorized(authorized, hashedToken) == hashedToken \in authorized

\* a rejection for the rate limit that is itself recorded as a request
RecordRejected(withClient, clientId, recentRequests, t) ==
  [withClient EXCEPT ![clientId] = Append(recentRequests, t)]

\* the rate-limit map after the 429 response: the list of the client was
\* created if it was missing, and nothing was pushed or set
AfterRejected(withClient, clientId, recentRequests, t) == withClient

\* authenticate(req, res, next): the response it sends, or next() with the
\* request recorded, and the rate-limit map it leaves behind
authenticate(r, authorized, limits, t) ==
  LET token == ExtractToken(r)
      hashedToken == hashToken(token)
      clientId == hashedToken.prefix
      recentRequests == RecentRequests(RequestsOf(limits, clientId), t)
      withClient == IF clientId \in DOMAIN limits THEN limits ELSE (clientId :> <<>>) @@ limits
  IN  IF token = ""
      THEN [next |-> FALSE, status |-> 401, error |-> "Authentication required",
            retry_after |-> 0, limits |-> limits]
      ELSE IF ~IsAuthorized(authorized, hashedToken)
      THEN [next |-> FALSE, status |-> 401, error |-> "Invalid API token",
            retry_after |-> 0, limits |-> limits]
      ELSE IF LimitReached(recentRequests)
      THEN [next |-> FALSE, status |-> 429, error |-> "Rate limit exceeded",
            retry_after |-> CeilSeconds(recentRequests[1] + windowMs - t),
            limits |-> AfterRejected(withClient, clientId, recentRequests, t)]
      ELSE [next |-> TRUE, status |-> 0, error |-> "", retry_after |-> 0,
            limits |-> [withClient EXCEPT ![clientId] = Append(recentRequests, t)]]

-----------------------------------------------------------------------------
(* Inputs                                                                  *)

MaxPieces == 3

Pieces ==
  { <<"S","a","d">>, <<"m","a","d">>, <<"a","w","f","u","l">>, <<"a">>, <<"x">>, <<" ">>, <<"!">> }

RECURSIVE Flatten(_)
Flatten(ps) == IF ps = <<>> THEN <<>> ELSE Head(ps) \o Flatten(Tail(ps))

Repeat(c, n) == SubSeq([i \in 1..n |-> c], 1, n)

\* texts of up to MaxPieces pieces
PieceTexts == {Flatten(ps) : ps \in UNION {[1..k -> Pieces] : k \in 0..MaxPieces}}

\* texts around the length limit, with and without surrounding whitespace
LongTexts ==
  { Repeat("a", MaxTextLength), Repeat("a", MaxTextLength + 1),
    <<"s","a","d">> \o Repeat(" ", MaxTextLength - 2),
    Repeat(" ", MaxTextLength - 2) \o <<"s","a","d">>,
    Repeat(" ", MaxTextLength + 1) }

Texts == PieceTexts \cup LongTexts

Bodies == {NoBody, Body(Undefined), Body(Num(0)), Body(Num(5))} \cup {Body(Str(t)) : t \in Texts}

Methods == {"POST", "GET", "OPTIONS", "PUT"}

NoAuthorization == [scheme |-> "none", credentials |-> ""]

NoRequest ==
  [endpoint |-> "none", method |-> "", authorization |-> NoAuthorization, api_token |-> "",
   body |-> NoBody]

\* the bodies sent with the methods other than POST, for which the handler
\* answers before it reads the body
OtherBodies ==
  { NoBody, Body(Undefined), Body(Str(<<>>)), Body(Str(<<"S","a","d">>)),
    Body(Str(Repeat("a", MaxTextLength + 1))) }

\* requests to /api/analyze-text that carry no token
TextRequests ==
  { [endpoint |-> "analyze-text", method |-> "POST", authorization |-> NoAuthorization,
     api_token |-> "", body |-> b] : b \in Bodies }
  \cup
  { [endpoint |-> "analyze-text", method |-> m, authorization |-> NoAuthorization,
     api_token |-> "", body |-> b] : m \in Methods \ {"POST"}, b \in OtherBodies }

Bearer(t) == [scheme |-> "Bearer", credentials |-> t]

\* the ways a request presents a token, or none: [authorization, api_token]
Presentations ==
  {<<NoAuthorization, "">>} \cup
  {<<Bearer(t), "">> : t \in Tokens} \cup
  {<<NoAuthorization, t>> : t \in Tokens} \cup
  { <<[scheme |-> "Basic", credentials |-> "tokA"], "">>,
    <<Bearer(""), "tokA">>, <<Bearer("bad"), "tokA">> }

Presented(endpoint, method, p, body) ==
  [endpoint |-> endpoint, method |-> method, authorization |-> p[1], api_token |-> p[2],
   body |-> body]

StatsRequests ==
  {Presented("stats", "GET", p, NoBody) : p \in Presentations} \cup
  {Presented("stats", m, <<Bearer("tokA"), "">>, NoBody) : m \in {"OPTIONS", "POST"}}

AudioBrowserRequests ==
  {Presented("analyze-audio-browser", "POST", p, NoBody) :
     p \in {<<NoAuthorization, "">>, <<Bearer("tokB"), "">>, <<NoAuthorization, DefaultToken>>}}
  \cup {Presented("analyze-audio-browser", "GET", <<Bearer("tokB"), "">>, NoBody)}

\* requests to /api/analyze-text with and without a token
TokenTextRequests ==
  {Presented("analyze-text", "POST", p, Body(Str(<<"s","a","d">>))) :
     p \in {<<NoAuthorization, "">>, <<Bearer("tokA"), "">>, <<Bearer("bad"), "">>}}

Upload(size) == [type |-> "upload", size |-> size]

\* requests to /api/analyze-audio with and without a token
TokenAudioRequests ==
  {Presented("analyze-audio", "POST", p, b) :
     p \in {<<NoAuthorization, "">>, <<Bearer("tokA"), "">>},
     b \in {NoBody, Upload(MinAudioSize)}}
  \cup {Presented("analyze-audio", "GET", <<NoAuthorization, "">>, NoBody)}

\* the sizes of the uploads of the model, around the two limits of the handler
AudioSizes == {0, MinAudioSize - 1, MinAudioSize, MinAudioSize + 1, MaxAudioSize,
               MaxAudioSize + 1}

\* requests to /api/analyze-audio: multipart forms with and without a file in
\* the audio field, and the other methods
AudioRequests ==
  {Presented("analyze-audio", "POST", p, b) :
     p \in {<<NoAuthorization, "">>, <<Bearer("tokA"), "">>},
     b \in {NoBody} \cup {Upload(s) : s \in AudioSizes}}
  \cup {Presented("analyze-audio", meth, <<NoAuthorization, "">>, NoBody) :
          meth \in {"GET", "OPTIONS"}}

MaxUploads == 3

\* the names formidable can give to a stored upload
TmpNames == 1..MaxUploads

\* what form.parse can do with the request: store the upload and call back
\* without error, or, for an upload above maxFileSize, also call back with an
\* error, the part already written kept or removed
ParseOutcomes(r) ==
  IF r.method = "POST" /\ r.body.type = "upload" /\ r.body.size > MaxAudioSize
  THEN {"stored", "error_kept", "error_removed"}
  ELSE {"stored"}

\* the environments of the model: the values of API_TOKEN_1..50 that are set
Environments == {{}, {"tokA", "tokB"}}

MaxServed == 3

ClockStep == 30000

MaxClock == 60000

\* the number of requests of one token that the process has already accepted
\* when the model starts (all at time 0)
Preloads == {0, maxRequests - 1}

\* the texts handed to the engine: validated phrases
\* phrases with more unknown words than analyzeText sends out: one word six
\* times, and six different words followed by a word of the database
ManyUnknownTexts ==
  { <<"x"," ","x"," ","x"," ","x"," ","x"," ","x">>,
    <<"b"," ","c"," ","d"," ","e"," ","f"," ","g"," ","S","a","d">> }

\* phrases of database words whose dominant emotions differ
MixedTexts ==
  { <<"f","u","n">>,
    <<"f","u","n"," ","f","u","n"," ","k","i","n">>,
    <<"f","u","n"," ","s","a","d">>,
    <<"f","u","n"," ","k","i","n"," ","s","a","d">>,
    <<"f","u","n"," ","x">>,
    <<"f","u","n"," ","o","d","d"," ","o","d","d">>,
    <<"o","d","d"," ","s","a","d">>,
    <<"f","u","n"," ","s","a","d"," ","c","r","y">>,
    <<"f","u","n"," ","f","u","n"," ","s","a","d"," ","s","o","r","r","y">> }

EngineTexts ==
  ({trim(t) : t \in PieceTexts} \ {<<>>}) \cup ManyUnknownTexts \cup MixedTexts

WordData(probs, vad, sentiment) ==
  [type |-> "object", emotion_probs |-> probs, vad |-> vad, sentiment |-> sentiment]

JoyStats ==
  Stats(Probs(R(7,10), R(1,10), R(1,10), R(1,40), R(1,40), R(1,40), Zero, R(1,40)),
        R(9,10), R(3,5), R(3,5), "positive", R(4,5))

NeutralStats ==
  Stats(Probs(R(1,8), R(1,8), R(1,8), R(1,8), R(1,8), R(1,8), R(1,8), R(1,8)),
        R(1,2), R(1,2), R(1,2), "neutral", R(1,2))

\* what a DeepSeek call can come back with
DeepSeekOutcomes ==
  { [kind |-> "http_error"], [kind |-> "network_error"], [kind |-> "malformed"],
    [kind |-> "json", data |-> WordData(JoyStats.emotion_probs, JoyStats.vad, JoyStats.sentiment)],
    [kind |-> "json",
     data |-> WordData(NeutralStats.emotion_probs, NeutralStats.vad, NeutralStats.sentiment)],
    [kind |-> "json", data |-> WordData(Undefined, JoyStats.vad, JoyStats.sentiment)],
    [kind |-> "json", data |-> WordData(JoyStats.emotion_probs, Undefined, JoyStats.sentiment)],
    [kind |-> "json", data |-> WordData(JoyStats.emotion_probs, JoyStats.vad, Undefined)] }

-----------------------------------------------------------------------------
(* Actions                                                                 *)

NoResult == [processing_method |-> "none"]

\* the call failed: no response with status OK, content that is not JSON, or
\* JSON without emotion_probs, vad or sentiment
FailedCall(outcome) ==
  \/ outcome.kind # "json"
  \/ outcome.data.emotion_probs.type # "object"
  \/ outcome.data.vad.type # "object"
  \/ outcome.data.sentiment.type # "object"

\* analyzeText at rest; failed records, for each call that has settled,
\* whether it failed
EngineIdle ==
  [pc |-> "idle", text |-> <<>>, wordAnalyses |-> <<>>, unknownWords |-> <<>>, k |-> 0,
   calls |-> 0, inflight |-> {}, failed |-> <<>>, result |-> NoResult]

\* every unknown word is sent out
AttemptsUnbounded(unknownWords, apiKey) ==
  IF Len(unknownWords) > 0 /\ apiKey THEN Len(unknownWords) ELSE 0

\* the number of unknown words analyzeText sends out
Attempts(unknownWords, apiKey) ==
  IF Len(unknownWords) > 0 /\ apiKey
  THEN IF Len(unknownWords) < MaxDeepSeekWords THEN Len(unknownWords) ELSE MaxDeepSeekWords
  ELSE 0

\* the calls of the loop all started together, as Promise.all would
CallsAtOnce(unknownWords, apiKey) == 1..Attempts(unknownWords, apiKey)

\* the calls pending when the for loop reaches its first await: the one for
\* the first unknown word
FirstCalls(unknownWords, apiKey) == {1}

\* emotionEngine.analyzeText(text) up to its first await: the database
\* lookups, then either the first DeepSeek call or the final calculation
EngineStart(text) ==
  /\ req = NoRequest
  /\ engine.pc = "idle"
  /\ LET wordAnalyses == WordEntries(wordCache, text)
         unknownWords == UnknownWords(wordAnalyses)
     IN  engine' =
           IF Attempts(unknownWords, deepseekApiKey) > 0
           THEN [pc |-> "awaiting", text |-> text, wordAnalyses |-> wordAnalyses,
                 unknownWords |-> unknownWords, k |-> 1, calls |-> 1,
                 inflight |-> FirstCalls(unknownWords, deepseekApiKey), failed |-> <<>>,
                 result |-> NoResult]
           ELSE [pc |-> "done", text |-> text, wordAnalyses |-> wordAnalyses,
                 unknownWords |-> unknownWords, k |-> 0, calls |-> 0, inflight |-> {},
                 failed |-> <<>>,
                 result |-> calculateOverallEmotion(wordAnalyses, text)]
  /\ UNCHANGED <<req, res, wordCache, deepseekApiKey, env, authorizedTokens, rateLimits, now,
                 passed, callCounts, tmpFiles, pythonRuns, analyzer, backend>>

\* the pending DeepSeek call settles: the entry is updated or left alone, then
\* the loop issues the call for the next unknown word or analyzeText finishes
DeepSeekSettle(outcome) ==
  /\ engine.pc = "awaiting"
  /\ engine.k \in engine.inflight
  /\ LET wordAnalyses == ApplyDeepSeekResult(engine.wordAnalyses, engine.unknownWords[engine.k],
                                             analyzeWordWithDeepSeek(outcome))
     IN  engine' =
           IF engine.k < Attempts(engine.unknownWords, deepseekApiKey)
           THEN [engine EXCEPT !.wordAnalyses = wordAnalyses, !.k = @ + 1, !.calls = @ + 1,
                               !.inflight = (@ \ {engine.k}) \cup {engine.k + 1},
                               !.failed = Append(@, FailedCall(outcome))]
           ELSE [engine EXCEPT !.pc = "done", !.wordAnalyses = wordAnalyses,
                               !.inflight = @ \ {engine.k},
                               !.failed = Append(@, FailedCall(outcome)),
                               !.result = calculateOverallEmotion(wordAnalyses, engine.text)]
  /\ UNCHANGED <<req, res, wordCache, deepseekApiKey, env, authorizedTokens, rateLimits, now,
                 passed, callCounts, tmpFiles, pythonRuns, analyzer, backend>>

\* the caller has taken the result of analyzeText
EngineReturn ==
  /\ engine.pc = "done"
  /\ engine' = EngineIdle
  /\ UNCHANGED <<req, res, wordCache, deepseekApiKey, env, authorizedTokens, rateLimits, now,
                 passed, callCounts, tmpFiles, pythonRuns, analyzer, backend>>


\* one invocation of the analyze-text handler, from the request to the response
AnalyzeText(r) ==
  /\ req = NoRequest
  /\ engine.pc = "idle"
  /\ r.endpoint = "analyze-text"
  /\ req' = r
  /\ res' = AnalyzeTextResponse(r)
  /\ UNCHANGED <<engine, wordCache, deepseekApiKey, env, authorizedTokens, rateLimits, now, passed,
                 callCounts, tmpFiles, pythonRuns, analyzer, backend>>

\* the invocation is over; the function instance waits for the next request
\* (the handlers keep nothing of a request in their module state)
Return ==
  /\ req # NoRequest
  /\ res.returned
  /\ req' = NoRequest
  /\ res' = NoResponse
  /\ UNCHANGED <<engine, wordCache, deepseekApiKey, env, authorizedTokens, rateLimits, now, passed,
                 callCounts, tmpFiles, pythonRuns, analyzer, backend>>

\* the response the middleware sends when it rejects; the handler that awaits
\* next() has not returned
RejectResponse(a) ==
  [status |-> a.status, sent |-> 1, json |-> TRUE, success |-> FALSE, error |-> a.error,
   payload |-> [kind |-> "auth", retry_after |-> a.retry_after], returned |-> FALSE]

\* the outcome of a handler that authenticates after its method checks:
\* the response, the rate-limit map and whether next() was called
Authenticated(r, method, authorized, limits, t, okPayload) ==
  IF r.method = "OPTIONS" THEN [res |-> EndResponse(200), limits |-> limits, next |-> FALSE]
  ELSE IF r.method # method
  THEN [res |-> JsonResponse(405, FALSE, "Method not allowed", NoPayload),
        limits |-> limits, next |-> FALSE]
  ELSE LET a == authenticate(r, authorized, limits, t)
       IN  IF a.next
           THEN [res |-> JsonResponse(200, TRUE, "", okPayload), limits |-> a.limits,
                 next |-> TRUE]
           ELSE [res |-> RejectResponse(a), limits |-> a.limits, next |-> FALSE]

PassedAfter(log, r, t, next) ==
  IF next THEN Append(log, [token |-> ExtractToken(r), time |-> t])
  ELSE log

\* the stats handler: counters, method checks, authentication, statistics
StatsHandler(r) ==
  /\ req = NoRequest
  /\ engine.pc = "idle"
  /\ r.endpoint = "stats"
  /\ callCounts.stats + callCounts.audio < MaxServed
  /\ LET counts == [callCounts EXCEPT !.stats = @ + 1]
         out == Authenticated(r, "GET", authorizedTokens, rateLimits, now,
                  [kind |-> "stats", word_database_size |-> Cardinality(DOMAIN wordCache),
                   deepseek_integration |-> deepseekApiKey, stats_calls |-> counts.stats])
     IN  /\ callCounts' = counts
         /\ req' = r
         /\ res' = out.res
         /\ rateLimits' = out.limits
         /\ passed' = PassedAfter(passed, r, now, out.next)
  /\ UNCHANGED <<engine, wordCache, deepseekApiKey, env, authorizedTokens, now, tmpFiles, pythonRuns, analyzer, backend>>

\* the analyze-audio-browser handler: counter, method checks, authentication,
\* instructions
AudioBrowserHandler(r) ==
  /\ req = NoRequest
  /\ engine.pc = "idle"
  /\ r.endpoint = "analyze-audio-browser"
  /\ callCounts.stats + callCounts.audio < MaxServed
  /\ LET counts == [callCounts EXCEPT !.audio = @ + 1]
         out == Authenticated(r, "POST", authorizedTokens, rateLimits, now,
                  [kind |-> "instructions", audio_calls |-> counts.audio])
     IN  /\ callCounts' = counts
         /\ req' = r
         /\ res' = out.res
         /\ rateLimits' = out.limits
         /\ passed' = PassedAfter(passed, r, now, out.next)
  /\ UNCHANGED <<engine, wordCache, deepseekApiKey, env, authorizedTokens, now, tmpFiles, pythonRuns, analyzer, backend>>

\* a size test that also refuses a file of exactly the minimal size
AtMostMinimal(size) == size <= MinAudioSize

\* audioFile.size < 50
TooSmall(size) == size < MinAudioSize

\* the analyze-audio handler: the response, whether the stored file is
\* unlinked and whether runPythonAnalysis is called
AnalyzeAudioOutcome(r, parse) ==
  IF r.method = "OPTIONS" THEN [res |-> EndResponse(200), unlink |-> FALSE, python |-> FALSE]
  ELSE IF r.method # "POST"
  THEN [res |-> JsonResponse(405, FALSE, "Method not allowed", NoPayload), unlink |-> FALSE,
        python |-> FALSE]
  ELSE IF parse # "stored"
  THEN [res |-> JsonResponse(500, FALSE, "Internal server error during audio analysis",
                  NoPayload),
        unlink |-> FALSE, python |-> FALSE]
  ELSE IF r.body.type # "upload"
  THEN [res |-> JsonResponse(400, FALSE, "No audio file provided", NoPayload), unlink |-> FALSE,
        python |-> FALSE]
  ELSE IF TooSmall(r.body.size)
  THEN [res |-> JsonResponse(400, FALSE, "Audio file too small or corrupted", NoPayload),
        unlink |-> FALSE, python |-> FALSE]
  ELSE IF r.body.size > MaxAudioSize
  THEN [res |-> JsonResponse(400, FALSE, "Audio file too large", NoPayload), unlink |-> FALSE,
        python |-> FALSE]
  ELSE [res |-> JsonResponse(200, FALSE, "Audio analysis is not available",
                  [kind |-> "file_received", suggestion |-> "/api/analyze-text",
                   size |-> r.body.size]),
        unlink |-> TRUE, python |-> FALSE]

\* one invocation of the analyze-audio handler; formidable stores an upload
\* of a POST under a fresh name in /tmp before the handler looks at it
AnalyzeAudio(r, file, parse) ==
  /\ req = NoRequest
  /\ engine.pc = "idle"
  /\ r.endpoint = "analyze-audio"
  /\ file \notin tmpFiles
  /\ LET out == AnalyzeAudioOutcome(r, parse)
         stored == r.method = "POST" /\ r.body.type = "upload" /\ parse # "error_removed"
     IN  /\ req' = r
         /\ res' = out.res
         /\ tmpFiles' = IF stored /\ ~out.unlink THEN tmpFiles \cup {file} ELSE tmpFiles
         /\ pythonRuns' = IF out.python THEN pythonRuns + 1 ELSE pythonRuns
  /\ UNCHANGED <<engine, wordCache, deepseekApiKey, env, authorizedTokens, rateLimits, now,
                 passed, callCounts, analyzer, backend>>

\* time passes
Tick ==
  /\ now + ClockStep <= MaxClock
  /\ now' = now + ClockStep
  /\ UNCHANGED <<req, res, engine, wordCache, deepseekApiKey, env, authorizedTokens,
                 rateLimits, passed, callCounts, tmpFiles, pythonRuns, analyzer, backend>>

\* the platform ends an invocation whose handler never returns
PlatformTimeout ==
  /\ req # NoRequest
  /\ res.sent > 0
  /\ ~res.returned
  /\ req' = NoRequest
  /\ res' = NoResponse
  /\ UNCHANGED <<engine, wordCache, deepseekApiKey, env, authorizedTokens, rateLimits, now,
                 passed, callCounts, tmpFiles, pythonRuns, analyzer, backend>>

-----------------------------------------------------------------------------
(* The word analyzer interface (WordAnalyzerInterface)                     *)

\* the consecutive-error count at which runBatchProcessing breaks
ConsecutiveErrorLimit == 100

\* the invocations of processBatch that can be under way at once
MaxLoops == 2

Loops == 1..MaxLoops

\* the words the backend has left to process when the page is loaded
MaxWords == 1

\* the words the backend fails to process in a row before it saves one
MaxFailures == 1

\* the consecutive errors the backend has counted when the page is loaded
ErrorStarts == {0, 19, ConsecutiveErrorLimit - 1}

\* one invocation of processBatch: where it stands, whether Stop was clicked
\* while it ran, whether it sent its last command after a pause with
\* this.stats showing 20 or more consecutive errors, and whether it sent a
\* command after Stop
LoopIdle == [pc |-> "none", stopped |-> FALSE, overdue |-> FALSE, late |-> FALSE]

EmptyStats == [remainingWords |-> 0, consecutiveErrors |-> 0]

\* the object after its constructor
AnalyzerIdle ==
  [isProcessing |-> FALSE, batchProcessing |-> FALSE, stats |-> EmptyStats,
   loops |-> [l \in Loops |-> LoopIdle]]

\* the word processor behind /run_python and /api/stats
NoBackend == [remainingWords |-> 0, consecutiveErrors |-> 0]

\* this.stats after loadStats: the statistics of the backend, or the old
\* ones when neither /api/stats nor /run_python_stats answers
loadStats(stats, server, ok) ==
  IF ok THEN [remainingWords |-> server.remainingWords,
              consecutiveErrors |-> server.consecutiveErrors]
  ELSE stats

\* the condition of the while loop of runBatchProcessing
KeepsGoing(a) == a.batchProcessing /\ a.stats.remainingWords > 0

\* the test after the pause of runBatchProcessing
TooManyErrors(stats) == stats.consecutiveErrors >= ConsecutiveErrorLimit

\* runBatchProcessing has ended: the finally block of processBatch up to its
\* await of loadStats
Finish(a, l) ==
  [a EXCEPT !.batchProcessing = FALSE, !.isProcessing = FALSE, !.loops[l].pc = "final"]

\* the head of the while loop: the next 'single' command is sent, or the
\* loop ends
LoopTest(a, l) ==
  IF KeepsGoing(a)
  THEN [a EXCEPT !.loops[l].pc = "command",
                 !.loops[l].overdue =
                    a.loops[l].pc # "none" /\ a.stats.consecutiveErrors >= 20,
                 !.loops[l].late = @ \/ a.loops[l].stopped]
  ELSE Finish(a, l)

\* a click on the batch button, which is enabled while isProcessing is false
processBatch(l) ==
  /\ ~analyzer.isProcessing
  /\ analyzer.loops[l].pc = "none"
  /\ \A k \in Loops : k < l => analyzer.loops[k].pc # "none"
  /\ analyzer' = LoopTest([analyzer EXCEPT !.isProcessing = TRUE, !.batchProcessing = TRUE], l)
  /\ UNCHANGED <<req, res, engine, wordCache, deepseekApiKey, env, authorizedTokens,
                 rateLimits, now, passed, callCounts, tmpFiles, pythonRuns, backend>>

\* a click on the stop button, which is enabled while isProcessing is true
stopProcessing ==
  /\ analyzer.isProcessing
  /\ analyzer' =
       [analyzer EXCEPT !.batchProcessing = FALSE, !.isProcessing = FALSE,
                        !.loops = [l \in Loops |->
                                     IF @[l].pc \in {"none", "final"} THEN @[l]
                                     ELSE [@[l] EXCEPT !.stopped = TRUE]]]
  /\ UNCHANGED <<req, res, engine, wordCache, deepseekApiKey, env, authorizedTokens,
                 rateLimits, now, passed, callCounts, tmpFiles, pythonRuns, backend>>

\* what the backend can do with a 'single' command
CommandOutcomes == {"saved", "failed", "http_error"}

\* the 'single' command of a loop settles: the word is saved, the word
\* fails, or the request itself fails and runPythonCommand throws into the
\* catch of the loop
CommandSettles(l, outcome) ==
  /\ analyzer.loops[l].pc = "command"
  /\ outcome = "saved" => backend.remainingWords > 0
  /\ outcome = "failed" =>
       /\ backend.remainingWords > 0
       /\ \E start \in ErrorStarts :
            start <= backend.consecutiveErrors /\ backend.consecutiveErrors < start + MaxFailures
  /\ backend' =
       IF outcome = "saved"
       THEN [backend EXCEPT !.remainingWords = @ - 1, !.consecutiveErrors = 0]
       ELSE IF outcome = "failed"
       THEN [backend EXCEPT !.consecutiveErrors = @ + 1]
       ELSE backend
  /\ analyzer' = [analyzer EXCEPT !.loops[l].pc =
                                    IF outcome = "http_error" THEN "errpause" ELSE "stats"]
  /\ UNCHANGED <<req, res, engine, wordCache, deepseekApiKey, env, authorizedTokens,
                 rateLimits, now, passed, callCounts, tmpFiles, pythonRuns>>

\* the loadStats of the loop body settles and the pause of 2000 ms begins
StatsSettles(l, ok) ==
  /\ analyzer.loops[l].pc = "stats"
  /\ analyzer' = [analyzer EXCEPT !.stats = loadStats(@, backend, ok),
                                  !.loops[l].pc = "pause"]
  /\ UNCHANGED <<req, res, engine, wordCache, deepseekApiKey, env, authorizedTokens,
                 rateLimits, now, passed, callCounts, tmpFiles, pythonRuns, backend>>

\* the pause after a word is over: the loop breaks on too many consecutive
\* errors or goes back to its head
PauseEnds(l) ==
  /\ analyzer.loops[l].pc = "pause"
  /\ analyzer' = IF TooManyErrors(analyzer.stats) THEN Finish(analyzer, l)
                 ELSE LoopTest(analyzer, l)
  /\ UNCHANGED <<req, res, engine, wordCache, deepseekApiKey, env, authorizedTokens,
                 rateLimits, now, passed, callCounts, tmpFiles, pythonRuns, backend>>

\* the pause of 5000 ms in the catch block is over
ErrorPauseEnds(l) ==
  /\ analyzer.loops[l].pc = "errpause"
  /\ analyzer' = LoopTest(analyzer, l)
  /\ UNCHANGED <<req, res, engine, wordCache, deepseekApiKey, env, authorizedTokens,
                 rateLimits, now, passed, callCounts, tmpFiles, pythonRuns, backend>>

\* the loadStats at the end of processBatch settles and processBatch returns
FinalStats(l, ok) ==
  /\ analyzer.loops[l].pc = "final"
  /\ analyzer' = [analyzer EXCEPT !.stats = loadStats(@, backend, ok), !.loops[l] = LoopIdle]
  /\ UNCHANGED <<req, res, engine, wordCache, deepseekApiKey, env, authorizedTokens,
                 rateLimits, now, passed, callCounts, tmpFiles, pythonRuns, backend>>

\* the refresh of the statistics every 30 seconds while nothing is processed
AutoRefresh ==
  /\ ~analyzer.isProcessing
  /\ analyzer' = [analyzer EXCEPT !.stats = loadStats(@, backend, TRUE)]
  /\ UNCHANGED <<req, res, engine, wordCache, deepseekApiKey, env, authorizedTokens,
                 rateLimits, now, passed, callCounts, tmpFiles, pythonRuns, backend>>

\* the state of a fresh function instance
Init ==
  /\ req = NoRequest
  /\ res = NoResponse
  /\ engine = EngineIdle
  /\ wordCache = WordDatabase
  /\ deepseekApiKey \in BOOLEAN
  /\ env = {}
  /\ authorizedTokens = loadAuthorizedTokens(env)
  /\ rateLimits = <<>>
  /\ now = 0
  /\ passed = <<>>
  /\ callCounts = [stats |-> 0, audio |-> 0]
  /\ tmpFiles = {}
  /\ pythonRuns = 0
  /\ analyzer = AnalyzerIdle
  /\ backend = NoBackend

Next ==
  \/ \E r \in TextRequests : AnalyzeText(r)
  \/ Return
  \/ \E t \in EngineTexts : EngineStart(t)
  \/ \E o \in DeepSeekOutcomes : DeepSeekSettle(o)
  \/ EngineReturn

Spec == Init /\ [][Next]_vars

\* a function instance under an environment, fresh or with Preloads requests
\* of the configured token tokA already accepted
AuthInit ==
  /\ req = NoRequest
  /\ res = NoResponse
  /\ engine = EngineIdle
  /\ wordCache = WordDatabase
  /\ deepseekApiKey = TRUE
  /\ env \in Environments
  /\ authorizedTokens = loadAuthorizedTokens(env)
  /\ now = 0
  /\ \E n \in (IF "tokA" \in env THEN Preloads ELSE {0}) :
       /\ rateLimits = IF n = 0 THEN <<>>
                       ELSE (hashToken("tokA").prefix :> [i \in 1..n |-> 0])
       /\ passed = [i \in 1..n |-> [token |-> "tokA", time |-> 0]]
  /\ callCounts = [stats |-> 0, audio |-> 0]
  /\ tmpFiles = {}
  /\ pythonRuns = 0
  /\ analyzer = AnalyzerIdle
  /\ backend = NoBackend

AuthNext ==
  \/ \E r \in StatsRequests : StatsHandler(r)
  \/ \E r \in AudioBrowserRequests : AudioBrowserHandler(r)
  \/ \E r \in TokenTextRequests : AnalyzeText(r)
  \/ \E r \in TokenAudioRequests : AnalyzeAudio(r, 1, "stored")
  \/ Tick
  \/ Return
  \/ PlatformTimeout

AuthSpec == AuthInit /\ [][AuthNext]_vars

\* the times of the requests of a token that has reached its limit: one
\* request and, ClockStep later, all the others
SpreadTimes == <<0>> \o [i \in 1..(maxRequests - 1) |-> ClockStep]

\* a function instance that has just accepted the last request the limit
\* allows to the configured token tokA
RetryInit ==
  /\ req = NoRequest
  /\ res = NoResponse
  /\ engine = EngineIdle
  /\ wordCache = WordDatabase
  /\ deepseekApiKey = TRUE
  /\ env = {"tokA", "tokB"}
  /\ authorizedTokens = loadAuthorizedTokens(env)
  /\ now = ClockStep
  /\ rateLimits = (hashToken("tokA").prefix :> SpreadTimes)
  /\ passed = [i \in 1..maxRequests |-> [token |-> "tokA", time |-> SpreadTimes[i]]]
  /\ callCounts = [stats |-> 0, audio |-> 0]
  /\ tmpFiles = {}
  /\ pythonRuns = 0
  /\ analyzer = AnalyzerIdle
  /\ backend = NoBackend

RetrySpec == RetryInit /\ [][AuthNext]_vars

\* the analyze-audio function alone on a fresh instance
AudioNext ==
  \/ \E r \in AudioRequests, f \in TmpNames :
       \E parse \in ParseOutcomes(r) : AnalyzeAudio(r, f, parse)
  \/ Return

AudioSpec == Init /\ [][AudioNext]_vars

\* the page after loadInitialStats, the backend with words left and a count
\* of consecutive errors
AnalyzerInit ==
  /\ req = NoRequest
  /\ res = NoResponse
  /\ engine = EngineIdle
  /\ wordCache = WordDatabase
  /\ deepseekApiKey = TRUE
  /\ env = {}
  /\ authorizedTokens = loadAuthorizedTokens(env)
  /\ rateLimits = <<>>
  /\ now = 0
  /\ passed = <<>>
  /\ callCounts = [stats |-> 0, audio |-> 0]
  /\ tmpFiles = {}
  /\ pythonRuns = 0
  /\ \E words \in 0..MaxWords, errors \in ErrorStarts :
       /\ backend = [remainingWords |-> words, consecutiveErrors |-> errors]
       /\ analyzer = [AnalyzerIdle EXCEPT !.stats = loadStats(@, backend, TRUE)]

AnalyzerNext ==
  \/ \E l \in Loops : processBatch(l)
  \/ stopProcessing
  \/ \E l \in Loops, o \in CommandOutcomes : CommandSettles(l, o)
  \/ \E l \in Loops, ok \in BOOLEAN : StatsSettles(l, ok)
  \/ \E l \in Loops : PauseEnds(l)
  \/ \E l \in Loops : ErrorPauseEnds(l)
  \/ \E l \in Loops, ok \in BOOLEAN : FinalStats(l, ok)
  \/ AutoRefresh

AnalyzerSpec == AnalyzerInit /\ [][AnalyzerNext]_vars

-----------------------------------------------------------------------------
(* Properties                                                              *)

\* the text handler has answered the request in req
TextAnswered == req.endpoint = "analyze-text" /\ res.sent > 0

\* the analysis results the state holds: the one in the handler's response
\* and the one analyzeText has computed
AnalysisResults ==
  (IF TextAnswered /\ res.payload.kind = "analysis" THEN {res.payload.emotion_analysis} ELSE {})
  \cup (IF engine.pc = "done" THEN {engine.result} ELSE {})

\* x == y in JavaScript: NaN equals nothing
NumEq(x, y) == ~IsNaN(x) /\ ~IsNaN(y) /\ x = y

SumsToOne(emotions) ==
  LET sum == SumValues(EngineOrder, emotions)
  IN  RatLe(R(99, 100), sum) /\ RatLe(sum, R(101, 100))

\* C1: in every analysis result the eight values of emotions sum to 1.0
\* within 0.01, on the keyword path, the neutral path and the weighted path
\* with context boost and renormalisation
C1_EmotionsSumToOne == \A a \in AnalysisResults : SumsToOne(a.emotions)

\* a weighted result whose phrase matched a context pattern
C1_Witness ==
  /\ engine.pc = "done"
  /\ engine.result.processing_method = "javascript_with_real_database"
  /\ \E e \in Emotions : RatGt(BoostFactor(e, toLowerCase(engine.text)), Zero)
  /\ SumsToOne(engine.result.emotions)

\* the request is a POST to analyze-text whose body has a string text
PostedText == TextAnswered /\ req.method = "POST" /\ req.body.type = "object"
              /\ req.body.text.type = "string"

AllWhitespace(t) == \A i \in 1..Len(t) : IsWs(t[i])

\* C2: a POST to analyze-text whose text is empty or only whitespace gets
\* HTTP 400 and no analysis
C2_EmptyTextRejected ==
  (PostedText /\ AllWhitespace(req.body.text.val))
    => (res.status = 400 /\ res.payload.kind = "none")

\* a whitespace-only text of several characters was rejected
C2_Witness ==
  /\ PostedText
  /\ Len(req.body.text.val) > 1
  /\ AllWhitespace(req.body.text.val)
  /\ res.status = 400

\* C3: a POST to analyze-text whose text, as submitted, is longer than 10,000
\* characters gets HTTP 400
C3_LongTextRejected ==
  (PostedText /\ Len(req.body.text.val) > MaxTextLength) => res.status = 400

\* no token of the result's word analysis was classified
NothingClassified(a) == \A i \in 1..Len(a.word_analysis) : ~a.word_analysis[i].found

NeutralProfile(a) ==
  /\ \A e \in Emotions : NumEq(a.emotions[e], R(1, 8))
  /\ NumEq(a.vad.valence, R(1, 2)) /\ NumEq(a.vad.arousal, R(1, 2))
  /\ NumEq(a.vad.dominance, R(1, 2))
  /\ a.sentiment.polarity = "neutral" /\ NumEq(a.sentiment.strength, R(1, 2))

\* C4: when no token of a validated phrase is confidently classified, the
\* result is the neutral profile (emotions 0.125 each, vad 0.5/0.5/0.5,
\* sentiment neutral with strength 0.5) and the handler answers 200
C4_NeutralProfile ==
  /\ \A a \in AnalysisResults : NothingClassified(a) => NeutralProfile(a)
  /\ (TextAnswered /\ res.payload.kind = "analysis") => res.status = 200

\* C5: every request to analyze-text whose method is not POST gets HTTP 405
\* and is never analysed
C5_NonPostIs405 ==
  (TextAnswered /\ req.method # "POST") => (res.status = 405 /\ res.payload.kind = "none")

\* C5 as amended: a request whose method is neither POST nor OPTIONS gets
\* 405, an OPTIONS request gets 200 with an empty body, and neither is analysed
C5_NonPostRejected ==
  (TextAnswered /\ req.method # "POST") =>
     /\ res.payload.kind = "none"
     /\ req.method = "OPTIONS" => (res.status = 200 /\ ~res.json)
     /\ req.method # "OPTIONS" => (res.status = 405 /\ res.json /\ ~res.success)

\* a GET that carried an analysable text was refused
C5_Witness ==
  /\ TextAnswered /\ req.method = "GET"
  /\ req.body.type = "object" /\ req.body.text.type = "string"
  /\ ~AllWhitespace(req.body.text.val)
  /\ res.status = 405

\* C6: a POST to analyze-text without a text (no body, no text field or a
\* text that is not a string) gets HTTP 400
C6_MissingTextIs400 ==
  (TextAnswered /\ req.method = "POST"
     /\ (req.body.type = "undefined" \/ req.body.text.type # "string"))
    => res.status = 400

\* C7: in every analysis result coverage equals analyzed_words / word_count,
\* 0 <= analyzed_words <= word_count and coverage is in [0,1]
C7_CoverageIsRatio ==
  \A a \in AnalysisResults :
     /\ NumEq(a.coverage, R(a.analyzed_words, a.word_count))
     /\ 0 <= a.analyzed_words /\ a.analyzed_words <= a.word_count
     /\ RatLe(Zero, a.coverage) /\ RatLe(a.coverage, One)

\* C7 as amended: the same, except that a result with word_count = 0 (every
\* token cleaned to the empty string) has coverage 0
C7_CoverageIsRatioOrZero ==
  \A a \in AnalysisResults :
     /\ a.word_count > 0 => NumEq(a.coverage, R(a.analyzed_words, a.word_count))
     /\ a.word_count = 0 => NumEq(a.coverage, Zero)
     /\ 0 <= a.analyzed_words /\ a.analyzed_words <= a.word_count
     /\ RatLe(Zero, a.coverage) /\ RatLe(a.coverage, One)

\* analyzeText has finished a phrase none of whose tokens survived cleaning
C7_Witness ==
  /\ engine.pc = "done"
  /\ engine.text # <<>>
  /\ engine.result.word_count = 0
  /\ NumEq(engine.result.coverage, Zero)

\* the handler of req runs the authentication middleware on it
MiddlewareRan(r) ==
  \/ r.endpoint = "stats" /\ r.method = "GET"
  \/ r.endpoint = "analyze-audio-browser" /\ r.method = "POST"

\* the accepted requests of a token in the window of 60 seconds starting at t
AcceptedIn(token, t) ==
  {i \in DOMAIN passed : passed[i].token = token /\ t <= passed[i].time
                         /\ passed[i].time < t + windowMs}

\* the accepted requests of a token in the 60 seconds before now
AcceptedLately(token) ==
  {i \in DOMAIN passed : passed[i].token = token /\ now - passed[i].time < windowMs}

C8_WindowBound ==
  \A i \in DOMAIN passed :
     Cardinality(AcceptedIn(passed[i].token, passed[i].time)) <= maxRequests

C8_RejectAtLimit ==
  (/\ req = NoRequest /\ req' # NoRequest /\ MiddlewareRan(req')
   /\ Cardinality(AcceptedLately(ExtractToken(req'))) >= maxRequests)
    => (res'.status = 429 /\ passed' = passed)

\* C8: for every token, at most 100 requests presenting it pass the
\* middleware in any window of 60 seconds, and a request arriving when 100
\* requests of its token were accepted within the last 60 seconds gets 429
C8_RateLimit == []C8_WindowBound /\ [][C8_RejectAtLimit]_vars

\* a request was refused with 429 after 100 of its token had passed, one of
\* them through a handler
C8_Witness ==
  /\ req # NoRequest /\ MiddlewareRan(req)
  /\ res.status = 429
  /\ Cardinality(AcceptedLately(ExtractToken(req))) = maxRequests
  /\ callCounts.stats + callCounts.audio >= 2

\* the token is one of those configured in API_TOKEN_1..API_TOKEN_50
Configured(token) == token # "" /\ \E t \in env : hashToken(t) = hashToken(token)

C9_PassedConfigured == \A i \in DOMAIN passed : Configured(passed[i].token)

C9_OthersRefused ==
  (/\ req = NoRequest /\ req' # NoRequest /\ MiddlewareRan(req')
   /\ ~Configured(ExtractToken(req')))
    => (res'.status = 401 /\ passed' = passed)

\* C9: a request passes authentication only if its token hashes to the hash
\* of a token configured in API_TOKEN_1..API_TOKEN_50; a request with no
\* token or any other token gets 401 and next() is not called for it
C9_OnlyConfiguredTokensPass == []C9_PassedConfigured /\ [][C9_OthersRefused]_vars

\* the token is configured or, when no token is configured at all, it is the
\* development default
Accepted(token) ==
  IF env = {} THEN token # "" /\ hashToken(token) = hashToken(DefaultToken)
  ELSE Configured(token)

C9_PassedAccepted ==
  \A i \in DOMAIN passed : Accepted(passed[i].token)

C9_UnacceptedRefused ==
  (/\ req = NoRequest /\ req' # NoRequest /\ MiddlewareRan(req')
   /\ ~Accepted(ExtractToken(req')))
    => (res'.status = 401 /\ passed' = passed)

\* C9 as amended: a request passes authentication only if its token hashes to
\* the hash of a configured token or, when no API_TOKEN_i is configured, to
\* the hash of the development default dev-token-123; a request with no token
\* or any other token gets 401 and next() is not called for it
C9_OnlyAcceptedTokensPass == []C9_PassedAccepted /\ [][C9_UnacceptedRefused]_vars

\* with tokens configured, a request presenting the development default was
\* refused with 401 after another request had passed
C9_Witness ==
  /\ env # {}
  /\ req # NoRequest /\ MiddlewareRan(req)
  /\ ExtractToken(req) = DefaultToken
  /\ res.status = 401
  /\ passed # <<>>

\* the response shows that the endpoint processed the request
Processed ==
  res.sent > 0 /\ (res.success \/ res.payload.kind \in {"analysis", "file_received", "stats", "instructions"})

\* C10: on every endpoint a request without a valid token never reaches the
\* endpoint's processing and never receives a success response
C10_EndpointsRequireToken ==
  Processed => (ExtractToken(req) # "" /\ hashToken(ExtractToken(req)) \in authorizedTokens)

\* the analyze-audio handler has answered a POST that carried a file in the
\* audio field
UploadAnswered ==
  req.endpoint = "analyze-audio" /\ res.sent > 0 /\ req.method = "POST"
  /\ req.body.type = "upload"

Redirected ==
  /\ res.status = 200 /\ ~res.success
  /\ res.payload.kind = "file_received" /\ res.payload.suggestion = "/api/analyze-text"

InitialEntries == WordEntries(wordCache, engine.text)

UnknownPositions == {i \in 1..Len(InitialEntries) : ~InitialEntries[i].found}

\* the positions of the unknown words after the first five
BeyondFive == {i \in UnknownPositions : Cardinality({j \in UnknownPositions : j < i}) >= 5}

\* C12: one analyzeText request issues at most 5 external classification
\* calls, none without an API key, and the unknown words beyond the first
\* five keep their placeholder entry with found = false
C12_AtMostFiveCalls ==
  /\ engine.calls <= 5
  /\ ~deepseekApiKey => engine.calls = 0
  /\ engine.pc \in {"awaiting", "done"} =>
       \A i \in BeyondFive : /\ engine.wordAnalyses[i] = InitialEntries[i]
                              /\ ~engine.wordAnalyses[i].found
  /\ engine.pc = "done" =>
       \A i \in BeyondFive : ~engine.result.word_analysis[i].found

\* a phrase of six different unknown words was analysed with five calls, the
\* fifth word classified and the sixth left as placeholder
C12_Witness ==
  /\ engine.pc = "done"
  /\ engine.calls = 5
  /\ Cardinality(UnknownPositions) = 6
  /\ engine.wordAnalyses[5].found
  /\ ~engine.wordAnalyses[6].found

\* the neutral placeholder of an unknown word
IsPlaceholder(w) ==
  /\ w.emotion = "neutral" /\ NumEq(w.confidence, R(1, 8))
  /\ NumEq(w.valence, R(1, 2)) /\ NumEq(w.arousal, R(1, 2))
  /\ ~w.found

\* every call that has settled for the word failed
AllCallsFailed(clean) ==
  \A k \in 1..Len(engine.failed) :
     engine.unknownWords[k].clean_word = clean => engine.failed[k]

\* the number of calls analyzeText owes to its phrase
CallsDue ==
  IF ~deepseekApiKey THEN 0
  ELSE IF Len(engine.unknownWords) < 5 THEN Len(engine.unknownWords) ELSE 5

C14_ClassifiedWordCached ==
  \A k \in 1..Len(engine.failed) :
     ~engine.failed[k] => engine.unknownWords[k].clean_word \in DOMAIN wordCache

\* the confident words of the phrase analyzeText has finished
Confident == ConfidentWords(engine.wordAnalyses)

\* the number of confident words whose own emotion is e
WordCount(e) == Cardinality({i \in 1..Len(Confident) : Confident[i].emotion = e})

\* the emotions with the highest word count and with the highest probability
WordCountWinners == {e \in Emotions : \A f \in Emotions : WordCount(f) <= WordCount(e)}

ProbabilityWinners ==
  {e \in Emotions :
     \A f \in Emotions : RatLe(engine.result.emotions[f], engine.result.emotions[e])}

\* the emotion the reconciliation selects for a pair of winners
Reconciled(wordCountWinner, probWinner) ==
  IF \/ Cardinality(WordCountWinners) > 1
     \/ RatGt(RatAdd(engine.result.emotions[probWinner],
                     RatMul(R(-1, 1), engine.result.emotions[wordCountWinner])),
              R(1, 20))
  THEN probWinner
  ELSE wordCountWinner

\* C15: the dominant emotion of a phrase is the probability winner when the
\* word-count winner is tied or lies more than 0.05 below it in probability,
\* and the word-count winner otherwise
C15_WinnersReconciled ==
  (engine.pc = "done" /\ engine.result.processing_method = "javascript_with_real_database")
    => \E w \in WordCountWinners, p \in ProbabilityWinners :
          engine.result.overall_emotion = Reconciled(w, p)

\* the positions, in a key order, of the maximal values of a map
MaxPositions(keys, map) ==
  {i \in 1..Len(keys) : \A j \in 1..Len(keys) : RatLe(map[keys[j]], map[keys[i]])}

FirstMax(keys, map) ==
  keys[CHOOSE i \in MaxPositions(keys, map) : \A j \in MaxPositions(keys, map) : i <= j]

LastMax(keys, map) ==
  keys[CHOOSE i \in MaxPositions(keys, map) : \A j \in MaxPositions(keys, map) : j <= i]

\* the handler's response carries an analysis
HandlerAnalysed == TextAnswered /\ res.payload.kind = "analysis"

\* analyzeText has finished with a weighted result
EngineWeighted ==
  engine.pc = "done" /\ engine.result.processing_method = "javascript_with_real_database"

RawScore(wordData, emotion) ==
  LET probs == wordData.emotion_probs.map
      raw == IF emotion \in DOMAIN probs THEN probs[emotion] ELSE R(1, 8)
      factor == IF RatGt(wordData.confidence, R(1, 2)) THEN R(3, 1)
                ELSE IF RatGt(wordData.confidence, R(3, 10)) THEN R(5, 2)
                ELSE R(2, 1)
  IN  IF emotion = wordData.emotion THEN RatMul(raw, factor) ELSE raw

RawTotals ==
  [e \in Emotions |-> RatSumSeq([i \in 1..Len(Confident) |-> RawScore(Confident[i], e)])]

\* C17: each confident word adds to the running total of its own emotion its
\* probability times 3.0, 2.5 or 2.0 by confidence, and to that of every
\* other emotion exactly its raw probability, a raw probability of 0
\* included; the result is these totals normalised and context-adjusted
C17_RawProbabilitiesSummed ==
  EngineWeighted =>
    engine.result.emotions
      = applyContextAdjustments(NormalizeWeights(RawTotals), Confident, engine.text)

\* the normalised scores of the finished phrase before the context boost
Normalised == NormalizeWeights(EmotionWeights(Confident))

\* the number of patterns of an emotion that occur in the lowercased phrase
PatternMatches(e) ==
  Cardinality({p \in contextPatterns[e][1] : includes(toLowerCase(engine.text), p)})
  + Cardinality({p \in contextPatterns[e][2] : includes(toLowerCase(engine.text), p)})

\* the scores after the boost: 0.15 more for every matched pattern, at most
\* 0.8, or the score itself without a matched pattern
Boosted ==
  LET normalised == Normalised
  IN  [e \in Emotions |->
         LET matches == PatternMatches(e)
         IN  IF matches = 0 THEN normalised[e]
             ELSE RatMin(RatAdd(normalised[e], R(15 * matches, 100)), R(8, 10))]

\* C18: every pattern of an emotion that occurs in the lowercased phrase adds
\* 0.15 to its normalised score, the groups adding independently; a boosted
\* score is at most 0.8, an emotion without a matched pattern keeps its
\* score, and the map is renormalised afterwards
C18_ContextBoost ==
  EngineWeighted =>
    LET boosted == Boosted
        total == RatSumSeq([i \in 1..8 |-> boosted[EngineOrder[i]]])
    IN  /\ \A e \in Emotions : PatternMatches(e) > 0 => RatLe(boosted[e], R(8, 10))
        /\ \A e \in Emotions :
             NumEq(engine.result.emotions[e], RatDiv(boosted[e], total))

\* a phrase matched one pattern in each group of an emotion and the boost of
\* 0.30 stayed below the cap
C18_Witness ==
  /\ EngineWeighted
  /\ \E e \in Emotions :
       /\ \E p \in contextPatterns[e][1] : includes(toLowerCase(engine.text), p)
       /\ \E p \in contextPatterns[e][2] : includes(toLowerCase(engine.text), p)
       /\ RatLt(RatAdd(Normalised[e], R(3, 10)), R(8, 10))

\* every confident word of the finished phrase comes from the database
AllFromDatabase == \A i \in 1..Len(Confident) : Confident[i].source = "database"

\* the mean over the confident words of one dimension of their stored profile
StoredMean(dimension) ==
  RatDiv(RatSumSeq([i \in 1..Len(Confident) |->
                      wordCache[Confident[i].clean_word].vad[dimension]]),
         R(Len(Confident), 1))

\* C19: the valence, arousal and dominance of a phrase are the means of the
\* values stored in the profiles of its confident words, a stored 0 counting
\* as 0 and dominance being the stored dominance
C19_VadIsStoredMean ==
  (EngineWeighted /\ AllFromDatabase) =>
     /\ NumEq(engine.result.vad.valence, StoredMean("valence"))
     /\ NumEq(engine.result.vad.arousal, StoredMean("arousal"))
     /\ NumEq(engine.result.vad.dominance, StoredMean("dominance"))

\* the number of confident words of the finished phrase with a polarity
Votes(polarity) ==
  Cardinality({i \in 1..Len(Confident) : Confident[i].sentiment = polarity})

Polarities == {"positive", "negative", "neutral"}

\* the polarity with more votes than each of the other two, neutral without one
Majority ==
  IF \E p \in Polarities : \A q \in Polarities \ {p} : Votes(q) < Votes(p)
  THEN CHOOSE p \in Polarities : \A q \in Polarities \ {p} : Votes(q) < Votes(p)
  ELSE "neutral"

MeanConfidence ==
  RatDiv(RatSumSeq([i \in 1..Len(Confident) |-> Confident[i].confidence]),
         R(Len(Confident), 1))

\* C20: the sentiment polarity of a phrase is the majority vote over
\* positive, negative and neutral among its confident words, a tie yielding
\* neutral, and the strength is their mean confidence
C20_MajorityOfThree ==
  EngineWeighted =>
    /\ engine.result.sentiment.polarity = Majority
    /\ NumEq(engine.result.sentiment.strength, MeanConfidence)

\* C20 as amended: the polarity is positive when more confident words are
\* positive than negative, negative when more are negative than positive and
\* neutral otherwise, neutral words not voting; the strength is the mean
\* confidence of the confident words
C20_PositiveAgainstNegative ==
  EngineWeighted =>
    /\ Votes("positive") > Votes("negative") => engine.result.sentiment.polarity = "positive"
    /\ Votes("negative") > Votes("positive") => engine.result.sentiment.polarity = "negative"
    /\ Votes("positive") = Votes("negative") => engine.result.sentiment.polarity = "neutral"
    /\ NumEq(engine.result.sentiment.strength, MeanConfidence)

\* one positive and one negative confident word gave a neutral phrase
C20_Witness ==
  /\ EngineWeighted
  /\ Votes("positive") = 1 /\ Votes("negative") = 1
  /\ engine.result.sentiment.polarity = "neutral"

\* the k-th unknown position of the phrase, in phrase order
UnknownPosition(k) ==
  CHOOSE i \in UnknownPositions : Cardinality({j \in UnknownPositions : j <= i}) = k

\* C21: within one request the external calls are issued one after another
\* in phrase order: at most one call is in flight, it is the call for the
\* next unknown word of the phrase, and it was started only after every
\* earlier call had completed or failed
C21_CallsSequential ==
  /\ Cardinality(engine.inflight) <= 1
  /\ engine.pc = "awaiting" =>
       /\ engine.inflight = {Len(engine.failed) + 1}
       /\ engine.calls = Len(engine.failed) + 1
       /\ engine.unknownWords[engine.calls].clean_word
            = InitialEntries[UnknownPosition(engine.calls)].clean_word
  /\ engine.pc # "awaiting" => engine.inflight = {}

\* the call for the third of several different unknown words is pending
\* after the first failed and the second succeeded
C21_Witness ==
  /\ engine.pc = "awaiting"
  /\ engine.inflight = {3}
  /\ engine.failed = <<TRUE, FALSE>>
  /\ Cardinality({engine.unknownWords[i].clean_word : i \in 1..3}) = 3

\* C22: the continuous processing loop stops once 20 consecutive errors
\* have occurred: after a word and its pause it sends no further 'single'
\* command when the statistics show 20 or more consecutive errors
C22_StopsAtTwentyErrors ==
  \A l \in Loops : analyzer.loops[l].pc = "command" => ~analyzer.loops[l].overdue

\* C23: in every analysis result overall_emotion is one of the eight emotion
\* labels, its value in emotions is maximal in that map, and confidence
\* equals emotions[overall_emotion]
C23_DominantIsMaximalLabel ==
  \A a \in AnalysisResults :
     /\ a.overall_emotion \in Emotions
     /\ \A e \in Emotions : RatLe(a.emotions[e], a.emotions[a.overall_emotion])
     /\ NumEq(a.confidence, a.emotions[a.overall_emotion])

\* an invocation of one of the handlers that authenticate has run as far as
\* it can without a further event
AuthenticatingInvoked == req.endpoint \in {"stats", "analyze-audio-browser"}

\* C24: every invocation of a handler that authenticates its requests
\* returns, having sent exactly one response, also when the middleware
\* rejects the request with 401 or 429
C24_InvocationReturns == AuthenticatingInvoked => (res.sent = 1 /\ res.returned)

\* C25: when the call for one of the first five unknown entries succeeds,
\* the entry at the position of that occurrence becomes found with source
\* deepseek, so that no classified occurrence of a repeated word is left as
\* a placeholder
C25_OccurrenceUpdated ==
  \A k \in 1..Len(engine.failed) :
     ~engine.failed[k] =>
        /\ engine.wordAnalyses[UnknownPosition(k)].found
        /\ engine.wordAnalyses[UnknownPosition(k)].source = "deepseek"

\* C26: the context-boost pass never lowers a score: for every emotion the
\* value after the boost step, before the renormalisation, is at least the
\* value before the boost step
C26_BoostNeverLowers ==
  EngineWeighted =>
    LET before == Normalised
        after == BoostedEmotions(before, engine.text)
    IN  \A e \in Emotions : RatLe(before[e], after[e])

\* the middleware has rejected the request of the step
RejectedNow == req = NoRequest /\ req' # NoRequest /\ res'.status \in {401, 429}

ClientIds == {hashToken(t).prefix : t \in Tokens}

\* C27: a request rejected by the middleware with 401 or 429 leaves the
\* recorded request timestamps of every token unchanged
C27_RejectionKeepsTimestamps ==
  [][RejectedNow =>
       \A c \in ClientIds : RequestsOf(rateLimits', c) = RequestsOf(rateLimits, c)]_vars

\* a token at its limit was answered 429 and its hundred timestamps are the
\* ones recorded before
C27_Witness ==
  /\ req # NoRequest /\ res.status = 429
  /\ Len(RequestsOf(rateLimits, hashToken(ExtractToken(req)).prefix)) = maxRequests
  /\ passed # <<>> /\ passed[Len(passed)].time < now

\* the middleware has answered the request in req with 429
RateLimited == req # NoRequest /\ res.status = 429

\* the moment retry_after seconds after the rejection
RetryTime == now + 1000 * res.payload.retry_after

\* the request in req made again with another token
WithToken(token) == [req EXCEPT !.authorization = Bearer(token), !.api_token = ""]

\* C28: the retry_after of a 429 response is a whole number of seconds from
\* 1 to 60, and the same request made retry_after seconds later is
\* accepted, whether or not a request with another token was made in
\* between
C28_RetryAfterHonoured ==
  RateLimited =>
    /\ res.payload.retry_after \in 1..60
    /\ authenticate(req, authorizedTokens, rateLimits, RetryTime).next
    /\ \A other \in Tokens \ {ExtractToken(req)}, t \in {now, RetryTime} :
         LET between == authenticate(WithToken(other), authorizedTokens, rateLimits, t)
         IN  authenticate(req, authorizedTokens, between.limits, RetryTime).next

\* C29: the temporary file of an upload no longer exists when the
\* analyze-audio handler has sent its response, on every path; the handler
\* runs from the request to the response in one step, so that no upload is
\* ever left in the upload directory
C29_TempFileRemoved == tmpFiles = {}

\* the invocations of processBatch whose loop has not ended
ActiveLoops == {l \in Loops : analyzer.loops[l].pc \notin {"none", "final"}}

\* C30: at most one batch-processing loop is active at any time: no loop
\* sends a 'single' command after Stop was clicked while it ran, also when a
\* new batch is started before its pending request, refresh or pause has
\* finished, and no two loops run that were not stopped
C30_OneLoopAtATime ==
  /\ \A l \in Loops : ~analyzer.loops[l].late
  /\ Cardinality({l \in ActiveLoops : ~analyzer.loops[l].stopped}) <= 1

====
